---- MODULE Spec2Model ----
(***************************************************************************)
(* State-machine model of torch_integral/model.py: the conversion          *)
(* pipeline of IntegralWrapper (SpecWrap) and the operations of the        *)
(* IntegralModel it assembles (Spec).                                      *)
(*                                                                         *)
(* Tensors are modelled by their shapes, parameters by <<module, attr>>    *)
(* names, groups by small integers.  The tracer, the groups, the grids     *)
(* and the parametrization classes live in modules that model.py only      *)
(* imports; what the model needs of them is taken from their documented    *)
(* contract and is marked as such where it is defined.                     *)
(***************************************************************************)
EXTENDS Integers, Sequences, FiniteSets, TLC

\* ------------------------------------------------------------- bounds
\* largest grid size a caller passes to resize / reset_grids
MaxSize == 2
\* longest argument list a caller passes to resize / reset_grids / reset_distributions
MaxArgs == 2
\* largest optimize_iters a caller configures
MaxIters == 10
\* number of distinct distributions a caller passes
MaxDist == 1
\* largest number of dims of a tensor handed to build_base_parameterization
MaxRank == 3
\* longest axis of such a tensor
MaxAxis == 4
\* number of calls a caller makes on the assembled model
MaxCalls == 4

\* ------------------------------------------------------------ helpers
None == <<>>
Some(x) == <<x>>

Min(a, b) == IF a <= b THEN a ELSE b

RECURSIVE Prod(_)
Prod(s) == IF s = <<>> THEN 1 ELSE Head(s) * Prod(Tail(s))

RECURSIVE SumSeq(_)
SumSeq(s) == IF s = <<>> THEN 0 ELSE Head(s) + SumSeq(Tail(s))

Range(s) == {s[i] : i \in 1..Len(s)}

IsPrefix(s, t) == Len(s) <= Len(t) /\ \A i \in 1..Len(s) : s[i] = t[i]

SeqsUpTo(S, n) == UNION {[1..k -> S] : k \in 0..n}

\* --------------------------------------------- the caller's discrete model
\* Five networks.  Topology 1 is a chain bn -> a -> b whose batch norm
\* normalises the discrete input and whose layer b has no bias.  Topology 2 feeds c
\* with the output of a concatenated with a parameter-free branch.  Topology 3
\* is the single layer a.  Topology 4 feeds c with the outputs of a and b
\* concatenated.  Topology 5 is the chain a -> debias, whose last layer is
\* registered under the name "debias" and has a discrete output.
Topologies == {1, 2, 3, 4, 5}

\* the networks whose assembled model is explored operation by operation
ModelTopologies == {1, 2, 3, 5}

ModuleNames == {"a", "b", "c", "bn", "debias"}

\* model.modules(): the model itself and the modules it holds
Modules == ModuleNames \cup {"model"}

\* model.named_parameters() of the discrete model, in registration order
DiscreteParams(t) ==
    IF t = 1
    THEN << <<"a", "weight">>, <<"a", "bias">>, <<"bn", "weight">>, <<"bn", "bias">>,
            <<"b", "weight">> >>
    ELSE IF t = 2
    THEN << <<"a", "weight">>, <<"a", "bias">>, <<"c", "weight">>, <<"c", "bias">> >>
    ELSE IF t = 3
    THEN << <<"a", "weight">>, <<"a", "bias">> >>
    ELSE IF t = 4
    THEN << <<"a", "weight">>, <<"a", "bias">>, <<"b", "weight">>,
            <<"c", "weight">>, <<"c", "bias">> >>
    ELSE << <<"a", "weight">>, <<"a", "bias">>,
            <<"debias", "weight">>, <<"debias", "bias">> >>

AllParams == UNION {Range(DiscreteParams(t)) : t \in Topologies}

\* shape of each stored discrete tensor
Shape(t, p) ==
    CASE p = <<"a", "weight">> -> <<2, 4>>
      [] p = <<"b", "weight">> -> <<2, 2>>
      [] p = <<"c", "weight">> -> <<2, 4>>
      [] p = <<"debias", "weight">> -> <<2, 2>>
      [] OTHER -> <<2>>

\* utils.get_parent_name / get_parent_module: split a dotted name at its last dot
ParentName(p) == p[1]
AttrName(p) == p[2]

\* ------------------------------------------------ the tracer's groups
\* IntegralTracer.build_groups: the groups in the order the tracer returns them.
\* In topology 2 group 3 is the concatenated axis c reads; its parts are group 1
\* and group 2, and group 2 holds no parameter and is not returned.
\* In topology 4 all three groups hold parameters and are returned.
\* In topology 5 group 1 is the axis between a and debias; the bias of debias
\* lies on the discrete output and is in no group.
TracerGroups(t) ==
    IF t = 1 THEN <<1, 2>> ELSE IF t = 2 THEN <<1, 3>> ELSE IF t \in {3, 5} THEN <<1>>
    ELSE <<1, 2, 3>>

Groups == {1, 2, 3}

\* group.params: the (parameter, dim) pairs that share the group's axis
GroupParams(t, g) ==
    IF t = 1
    THEN CASE g = 1 -> << [name |-> <<"a", "weight">>, dim |-> 0],
                          [name |-> <<"a", "bias">>, dim |-> 0],
                          [name |-> <<"b", "weight">>, dim |-> 1] >>
           [] g = 2 -> << [name |-> <<"b", "weight">>, dim |-> 0] >>
           [] OTHER -> << >>
    ELSE CASE g = 1 /\ t = 5 -> << [name |-> <<"a", "weight">>, dim |-> 0],
                                   [name |-> <<"a", "bias">>, dim |-> 0],
                                   [name |-> <<"debias", "weight">>, dim |-> 1] >>
           [] g = 1 /\ t # 5 -> << [name |-> <<"a", "weight">>, dim |-> 0],
                                   [name |-> <<"a", "bias">>, dim |-> 0] >>
           [] g = 3 /\ t \in {2, 4} -> << [name |-> <<"c", "weight">>, dim |-> 1] >>
           [] g = 2 /\ t = 4 -> << [name |-> <<"b", "weight">>, dim |-> 0] >>
           [] OTHER -> << >>

\* group.subgroups: None for a leaf, the list of nested groups otherwise
Subgroups(t, g) == IF t \in {2, 4} /\ g = 3 THEN Some(<<1, 2>>) ELSE None

IsLeaf(t, g) == Subgroups(t, g) = None

\* group.parents
Parents(t, g) == IF t \in {2, 4} /\ g \in {1, 2} THEN {3} ELSE {}

\* group.parents as the list _rearrange iterates
ParentList(t, g) == IF Parents(t, g) = {} THEN <<>> ELSE <<3>>

SubgroupSet(t, g) == IF IsLeaf(t, g) THEN {} ELSE Range(Subgroups(t, g)[1])

\* group.size as traced: the length of the axis in the discrete model
TracedSize(t, g) == IF t \in {2, 4} /\ g = 3 THEN 4 ELSE 2

\* tracer.continuous_dims: parameter name -> its continuous dims
ContinuousDims(t, p) ==
    {d \in 0..1 : \E g \in Range(TracerGroups(t)) :
        \E i \in 1..Len(GroupParams(t, g)) :
            GroupParams(t, g)[i] = [name |-> p, dim |-> d]}

GroupParamNames(t, g) == {GroupParams(t, g)[i].name : i \in 1..Len(GroupParams(t, g))}

\* IntegralGroup.count_parameters: numel of the tensors listed in the group
RECURSIVE CountFrom(_, _, _)
CountFrom(t, g, i) ==
    IF i > Len(GroupParams(t, g)) THEN 0
    ELSE Prod(Shape(t, GroupParams(t, g)[i].name)) + CountFrom(t, g, i + 1)

count_parameters(t, g) == CountFrom(t, g, 1)

\* stable ascending sort, as list.sort(key=...) sorts
RECURSIVE InsertByKey(_, _, _)
InsertByKey(t, g, s) ==
    IF s = <<>> THEN <<g>>
    ELSE IF count_parameters(t, Head(s)) <= count_parameters(t, g)
         THEN <<Head(s)>> \o InsertByKey(t, g, Tail(s))
         ELSE <<g>> \o s

RECURSIVE SortFrom(_, _, _)
SortFrom(t, s, acc) ==
    IF s = <<>> THEN acc ELSE SortFrom(t, Tail(s), InsertByKey(t, Head(s), acc))

\* groups.sort(key=lambda g: g.count_parameters())
SortGroups(t, s) == SortFrom(t, s, <<>>)

\* ------------------------------------------------------------- state
VARIABLES
    topo,            \* which network the caller converts
    mtype,           \* the class each module of the caller's model was built from
    cfg,             \* the IntegralWrapper's constructor arguments
    rearranger,      \* IntegralWrapper.rearranger: None or the permutation policy
    wpc,             \* position of IntegralWrapper.__call__
    stageLog,        \* the stages the conversion has entered, in order
    fusedConvs,      \* None, or the convolutions handed to fuse_batchnorm
    integral_groups, \* the list of groups returned by the second trace
    permCalls,       \* the calls the rearranger has received, in order
    gi, pi,          \* position of the parametrization loop (group, parameter)
    builder,         \* which build function parametrized each parameter
    fit,             \* the running _optimize_parameters call
    err,             \* the exception that ended the conversion, if any
    par,             \* module.parametrizations[attr] of every parameter: the classes
                     \* of the parametrizations registered on it, in order
    grid,            \* group.grid of every group
    held,            \* IntegralModel.groups
    original_size,   \* IntegralModel.original_size
    cache,           \* per group: "none", or whether its cached sampled tensors are
                     \* "fresh" or "stale" (sampled from coefficients since replaced)
    stored,          \* shape of the tensor each parameter slot stores
    rgrad,           \* the parameters with requires_grad = True
    pc,              \* position of the running IntegralModel method
    done,            \* groups the running method's loop has handled
    last,            \* the IntegralModel call that returned last
    build,           \* a call of build_base_parameterization: arguments and result
    training,        \* Module.training of the model ("model") and of each of its
                     \* modules; a parametrization has the mode of its parent module
    ncalls           \* number of calls made on the assembled model so far

wrapVars == <<topo, mtype, cfg, rearranger, wpc, stageLog, fusedConvs,
              integral_groups, permCalls, gi, pi, builder, fit, err>>
modelVars == <<par, grid, held, original_size, cache, stored, rgrad,
               pc, done, last>>
vars == <<wrapVars, modelVars, build, training, ncalls>>

\* ------------------------------------------------- IntegralWrapper.__init__
WrapperConfigs ==
    [init_from_discrete : BOOLEAN,
     fuse_bn : BOOLEAN,
     optimize_iters : 0..MaxIters,
     permutation_config : BOOLEAN,
     permutation_iters : {0, 100},
     build_functions : {None, Some({"Other"}), Some({"Linear"})}]

\* the defaults of IntegralWrapper.__init__
DefaultConfig ==
    [init_from_discrete |-> TRUE, fuse_bn |-> TRUE, optimize_iters |-> 0,
     permutation_config |-> FALSE, permutation_iters |-> 100,
     build_functions |-> None]

\* self.rearranger as the constructor leaves it
MakeRearranger(c) ==
    IF c.permutation_config THEN Some("configured")
    ELSE IF c.init_from_discrete /\ c.permutation_iters > 0 THEN Some("NOptPermutation")
    ELSE None

ModuleTypes ==
    {m \in [ModuleNames -> {"Linear", "Conv1d", "Conv2d", "BatchNorm2d", "Other"}] :
        /\ m["a"] \in {"Linear", "Conv2d", "Other"}
        /\ m["b"] \in {"Linear", "Conv1d", "Other"}
        /\ m["c"] = "Linear"
        /\ m["debias"] = "Linear"
        /\ m["bn"] = "BatchNorm2d"}

DefaultTypes == [m \in ModuleNames |-> IF m = "bn" THEN "BatchNorm2d" ELSE "Linear"]

NoGrid == [kind |-> "none", size |-> 0, dist |-> 0]
NoFit == [state |-> "idle", i |-> 0, steps |-> 0, last_epoch |-> 0, decays |-> 0,
          step_size |-> 0]
NoRet == [value |-> <<>>, model |-> <<>>, used |-> {}, gens |-> {}]
NoCall == [op |-> "none", args |-> <<>>, ret |-> NoRet, rep |-> FALSE]

Stage(s) == [stage |-> s, on |-> <<"-", "-">>]
StageOn(s, p) == [stage |-> s, on |-> p]

\* no call of build_base_parameterization is observed
NoBuild == [pc |-> "none", shape |-> <<>>, name |-> "", dims |-> <<>>,
            func |-> None, quadrature |-> None]

\* the wrapper constructed, the caller's model untouched
Unconverted ==
    /\ rearranger = MakeRearranger(cfg)
    /\ wpc = "start"
    /\ stageLog = <<>>
    /\ fusedConvs = None
    /\ integral_groups = <<>>
    /\ permCalls = <<>>
    /\ gi = 1 /\ pi = 1
    /\ builder = [p \in AllParams |-> "none"]
    /\ fit = NoFit
    /\ err = "none"
    /\ grid = [g \in Groups |-> NoGrid]
    /\ held = <<>>
    /\ original_size = None
    /\ cache = [g \in Groups |-> "none"]
    /\ stored = [p \in AllParams |-> Shape(topo, p)]
    /\ rgrad = {}
    /\ pc = "unbuilt"
    /\ done = {}
    /\ last = NoCall
    /\ ncalls = 0

\* Module.train(b) on the model: the model and every module in it take mode b
AllInMode(b) == [m \in Modules |-> b]

\* the parametrizations the caller's model brings along: none, or one of
\* another class on a.weight
CallerParametrizations ==
    {[p \in AllParams |-> IF p \in F THEN <<"Foreign">> ELSE <<>>] :
        F \in {{}, {<<"a", "weight">>}}}

\* the state before IntegralWrapper.__call__ runs on the caller's model
InitWrap ==
    /\ topo \in Topologies
    /\ mtype \in ModuleTypes
    /\ cfg \in WrapperConfigs
    /\ par \in CallerParametrizations
    /\ training \in {AllInMode(b) : b \in BOOLEAN}
    /\ Unconverted
    /\ build = NoBuild

\* ------------------------------------------ IntegralWrapper.preprocess_model
\* integral_convs: the Conv2d modules whose output-channel dim is continuous
IntegralConvs(t, types) ==
    {ParentName(p) : p \in
        {q \in Range(DiscreteParams(t)) :
            /\ ContinuousDims(t, q) # {}
            /\ types[ParentName(q)] = "Conv2d"
            /\ 0 \in ContinuousDims(t, q)}}

\* the <<convolution, batch norm>> pairs in which the batch norm directly
\* follows the convolution: none, the one batch norm precedes a
BatchNormAfter(t) == {}

\* utils.fuse_batchnorm: a batch norm that follows a fused convolution is merged
\* into it and its parameters leave the model
FusedAway(t, fused, p) ==
    /\ fused # None
    /\ \E c \in fused[1] : <<c, ParentName(p)>> \in BatchNormAfter(t)

\* model.named_parameters() of the (possibly fused) discrete model
ModelParams(t, fused) ==
    SelectSeq(DiscreteParams(t), LAMBDA p : ~FusedAway(t, fused, p))

Trace1 ==
    /\ wpc = "start"
    /\ wpc' = "traced1"
    /\ stageLog' = Append(stageLog, Stage("trace"))
    /\ UNCHANGED <<build, training, ncalls, topo, mtype, cfg, rearranger, fusedConvs, integral_groups,
                   permCalls, gi, pi, builder, fit, err, modelVars>>

\* the batch norms are fused into the integral convolutions of model.eval(),
\* which leaves the whole model in evaluation mode
FuseBN ==
    /\ wpc = "traced1"
    /\ cfg.fuse_bn
    /\ fusedConvs' = Some(IntegralConvs(topo, mtype))
    /\ wpc' = "fused"
    /\ stageLog' = Append(stageLog, Stage("fuse"))
    /\ training' = AllInMode(FALSE)
    /\ UNCHANGED <<build, ncalls, topo, mtype, cfg, rearranger, integral_groups,
                   permCalls, gi, pi, builder, fit, err, modelVars>>

Trace2 ==
    /\ \/ wpc = "traced1" /\ ~cfg.fuse_bn
       \/ wpc = "fused"
    /\ integral_groups' = TracerGroups(topo)
    /\ wpc' = "traced2"
    /\ stageLog' = Append(stageLog, Stage("trace"))
    /\ UNCHANGED <<build, training, ncalls, topo, mtype, cfg, rearranger, fusedConvs,
                   permCalls, gi, pi, builder, fit, err, modelVars>>

\* a variant that permutes whenever a rearranger exists
ShouldRearrange_IgnoringInit(c, r) == r # None

\* whether preprocess_model calls _rearrange
ShouldRearrange(c, r) == c.init_from_discrete /\ r # None

\* a variant that counts the subgroups before the group instead of adding
\* their sizes
StartIndex_Position(t, subs, g, k, acc) ==
    (CHOOSE j \in 1..Len(subs) : subs[j] = g) - 1

\* the loop of lines 277-281 from subgroup k on: `start` grows by the size of
\* every subgroup met before `group` and the loop breaks at `group`
RECURSIVE StartIndex(_, _, _, _, _)
StartIndex(t, subs, g, k, acc) ==
    IF k > Len(subs) THEN acc
    ELSE IF subs[k] # g THEN StartIndex(t, subs, g, k + 1, acc + TracedSize(t, subs[k]))
    ELSE acc

\* list(group.params): the group's own records, start_index as the tracer set it
OwnRecords(t, g) ==
    [i \in 1..Len(GroupParams(t, g)) |->
        [name |-> GroupParams(t, g)[i].name, dim |-> GroupParams(t, g)[i].dim,
         start_index |-> 0]]

\* the records appended for the parents from parent k on
RECURSIVE ParentRecords(_, _, _)
ParentRecords(t, g, k) ==
    IF k > Len(ParentList(t, g)) THEN <<>>
    ELSE LET parent == ParentList(t, g)[k]
             start == StartIndex(t, Subgroups(t, parent)[1], g, 1, 0)
         IN [i \in 1..Len(GroupParams(t, parent)) |->
                [name |-> GroupParams(t, parent)[i].name,
                 dim |-> GroupParams(t, parent)[i].dim,
                 start_index |-> start]]
            \o ParentRecords(t, g, k + 1)

\* self.rearranger(params, feature_maps, group.size) for one group
RearrangerCall(t, g) ==
    [group |-> g,
     params |-> OwnRecords(t, g) \o ParentRecords(t, g, 1),
     feature_maps |-> g,
     size |-> TracedSize(t, g)]

\* _rearrange: the rearranger is called once per group, in order
Rearrange ==
    /\ wpc = "traced2"
    /\ ShouldRearrange(cfg, rearranger)
    /\ permCalls' = [i \in 1..Len(integral_groups) |->
                        RearrangerCall(topo, integral_groups[i])]
    /\ wpc' = "preprocessed"
    /\ stageLog' = Append(stageLog, Stage("permute"))
    /\ UNCHANGED <<build, training, ncalls, topo, mtype, cfg, rearranger, fusedConvs, integral_groups,
                   gi, pi, builder, fit, err, modelVars>>

SkipRearrange ==
    /\ wpc = "traced2"
    /\ ~ShouldRearrange(cfg, rearranger)
    /\ wpc' = "preprocessed"
    /\ UNCHANGED <<build, training, ncalls, topo, mtype, cfg, rearranger, stageLog, fusedConvs, integral_groups,
                   permCalls, gi, pi, builder, fit, err, modelVars>>

\* ----------------------------------------------------- grids of the groups
\* IntegralGroup.initialize_grids: a leaf gets a grid of the traced size, a
\* group with subgroups the composition of its subgroups' grids
InitialGrid(t, g) ==
    [kind |-> IF IsLeaf(t, g) THEN "linspace" ELSE "composite",
     size |-> TracedSize(t, g), dist |-> 0]

\* initialize_grids on every leaf group also builds the grids of its parents,
\* and a parent's grid those of all its parts
InitializedGrids(t, groups) ==
    LET leaves == {g \in Range(groups) : IsLeaf(t, g)}
        above == leaves \cup UNION {Parents(t, g) : g \in leaves}
        reached == above \cup UNION {SubgroupSet(t, g) : g \in above}
    IN [g \in Groups |-> IF g \in reached THEN InitialGrid(t, g) ELSE NoGrid]

\* grid.size(): a composite grid is as long as its parts together
GridSize(t, gridf, g) ==
    IF gridf[g].kind = "composite"
    THEN LET sub == Subgroups(t, g)[1]
         IN SumSeq([i \in 1..Len(sub) |-> gridf[sub[i]].size])
    ELSE gridf[g].size

\* the groups of `groups` that hold dim d of parameter p and own a grid
GridGroups(t, groups, gridf, p, d) ==
    {g \in Range(groups) :
        /\ gridf[g].kind # "none"
        /\ \E i \in 1..Len(GroupParams(t, g)) :
              GroupParams(t, g)[i] = [name |-> p, dim |-> d]}

\* the tensor a parametrized attribute evaluates to: continuous dims take the
\* size of their grid, the other dims keep the size of the coefficient block
SampledShape(t, groups, gridf, p) ==
    [d \in 1..Len(Shape(t, p)) |->
        IF GridGroups(t, groups, gridf, p, d - 1) # {}
        THEN GridSize(t, gridf, CHOOSE g \in GridGroups(t, groups, gridf, p, d - 1) : TRUE)
        ELSE Shape(t, p)[d]]

\* the groups whose axis parameter p lies on
GroupsOf(t, groups, p) == {g \in Range(groups) : p \in GroupParamNames(t, g)}

\* ------------------------------------------------- parameters of the modules
PlainP(p) == [kind |-> "plain", mod |-> p[1], attr |-> p[2], grp |-> 0]
OriginalP(p) == [kind |-> "original", mod |-> p[1], attr |-> p[2], grp |-> 0]
InnerP(p) == [kind |-> "inner", mod |-> p[1], attr |-> p[2], grp |-> 0]
GridP(g) == [kind |-> "grid", mod |-> "-", attr |-> "-", grp |-> g]

IsParametrized(parf, p) == parf[p] # <<>>

\* some parametrization of the attribute is an IntegralParameterization
HasIntegral(parf, p) == "IntegralParameterization" \in Range(parf[p])

\* type(module): register_parametrization replaces the class of a module by a
\* parametrized subclass of it for as long as one of its attributes is parametrized
TypeOf(types, parf, m) ==
    IF \E p \in AllParams : ParentName(p) = m /\ IsParametrized(parf, p)
    THEN "Parametrized" \o types[m]
    ELSE types[m]

\* self.model.named_parameters(): "m.attr" for a plain parameter; for a
\* parametrized one "m.parametrizations.attr.original", the coefficients of the
\* parametrization object and the positions of the trainable grids it samples
ModelNamedParameters(t, fused, parf, groups, gridf) ==
    UNION {IF HasIntegral(parf, p)
           THEN {OriginalP(p), InnerP(p)}
                \cup {GridP(g) : g \in {h \in GroupsOf(t, groups, p) :
                                           gridf[h].kind = "trainable"}}
           ELSE IF IsParametrized(parf, p) THEN {OriginalP(p)}
           ELSE {PlainP(p)} : p \in Range(ModelParams(t, fused))}

\* self.named_parameters(): the wrapped model's and the groups' grids'
SelfNamedParameters(t, fused, parf, groups, gridf) ==
    ModelNamedParameters(t, fused, parf, groups, gridf)
        \cup {GridP(g) : g \in {h \in Range(groups) : gridf[h].kind = "trainable"}}

\* "parametrizations." not in name
NotInParametrizations(n) == n.kind = "plain"

\* name.endswith(".original")
EndsWithOriginal(n) == n.kind = "original"

\* ------------------------------------- IntegralModel.calculate_compression
RECURSIVE SumFn(_, _)
SumFn(S, f) ==
    IF S = {} THEN 0
    ELSE LET x == CHOOSE y \in S : TRUE IN f[x] + SumFn(S \ {x}, f)

\* get_attr_by_name(model, "m.attr") of a parametrized attribute: the tensor
\* its IntegralParameterization samples; under parametrizations of another
\* class only, a tensor of the shape of the stored one
EvaluatedShape(t, groups, gridf, storedf, parf, p) ==
    IF HasIntegral(parf, p) THEN SampledShape(t, groups, gridf, p) ELSE storedf[p]

\* a variant that counts, for an ".original" entry, the coefficient tensor itself
CountedNumel_Stored(t, groups, gridf, storedf, parf, n) ==
    IF NotInParametrizations(n) THEN Prod(storedf[<<n.mod, n.attr>>])
    ELSE IF EndsWithOriginal(n) THEN Prod(Shape(t, <<n.mod, n.attr>>))
    ELSE 0

\* what one named parameter adds to `out`: a plain parameter its numel, an
\* ".original" entry the numel of get_attr_by_name(model, "m.attr"), which is
\* the attribute evaluated through its parametrization; anything else nothing
CountedNumel(t, groups, gridf, storedf, parf, n) ==
    IF NotInParametrizations(n) THEN Prod(storedf[<<n.mod, n.attr>>])
    ELSE IF EndsWithOriginal(n)
         THEN Prod(EvaluatedShape(t, groups, gridf, storedf, parf, <<n.mod, n.attr>>))
    ELSE 0

\* the loop over self.model.named_parameters()
CurrentCount(t, fused, parf, groups, gridf, storedf) ==
    LET names == ModelNamedParameters(t, fused, parf, groups, gridf)
    IN SumFn(names, [n \in names |-> CountedNumel(t, groups, gridf, storedf, parf, n)])

\* the value returned: the count itself while original_size is None, else
\* 1.0 - out / original_size, kept as the fraction <<numerator, denominator>>
CompressionValue(out, osz) ==
    IF osz # None THEN <<osz[1] - out, osz[1]>> ELSE <<out>>

\* the groups of `groups` that own a parameter of the model which carries an
\* IntegralParameterization
SamplingGroups(t, fused, parf, groups) ==
    {g \in Range(groups) :
        \E p \in Range(ModelParams(t, fused)) :
           HasIntegral(parf, p) /\ p \in GroupParamNames(t, g)}

\* the parametrizations of group g's parameters are in training mode
InTraining(t, fused, parf, g, tr) ==
    \E p \in Range(ModelParams(t, fused)) :
       HasIntegral(parf, p) /\ p \in GroupParamNames(t, g) /\ tr[ParentName(p)]

\* evaluating every parametrized attribute of the model: in evaluation mode a
\* parametrization returns the tensor it has cached, or samples one and caches
\* it; in training mode it samples anew and drops what it has cached
CacheAfterSampling(t, fused, parf, groups, cachef, tr) ==
    [g \in Groups |->
        IF g \in SamplingGroups(t, fused, parf, groups)
        THEN (IF InTraining(t, fused, parf, g, tr) THEN "none"
              ELSE IF cachef[g] = "none" THEN "fresh" ELSE cachef[g])
        ELSE cachef[g]]

\* IntegralModel.clear: group.clear() for every group of self.groups
ClearAll(groups, cachef) ==
    [g \in Groups |-> IF g \in Range(groups) THEN "none" ELSE cachef[g]]

\* ------------------------------------------------ IntegralWrapper.__call__
\* groups = [g for g in integral_groups if g.subgroups is None]; initialize_grids
InitializeGrids ==
    /\ wpc = "preprocessed"
    /\ grid' = InitializedGrids(topo, integral_groups)
    /\ gi' = 1 /\ pi' = 1
    /\ wpc' = "loop"
    /\ UNCHANGED <<build, training, ncalls, topo, mtype, cfg, rearranger, stageLog, fusedConvs, integral_groups,
                   permCalls, builder, fit, err>>
    /\ UNCHANGED <<par, held, original_size, cache, stored, rgrad, pc, done, last>>

CurParam == GroupParams(topo, integral_groups[gi])[pi].name

NextPos(t, groups, i, j) ==
    IF j < Len(GroupParams(t, groups[i])) THEN <<i, j + 1>> ELSE <<i + 1, 1>>

\* not is_parametrized(parent, name) or no IntegralParameterization among them
NeedsParametrization(parf, p) ==
    \/ ~IsParametrized(parf, p)
    \/ \A i \in 1..Len(parf[p]) : parf[p][i] # "IntegralParameterization"

\* the build function chosen for the parent of parameter p, or "raise": the
\* caller's for type(parent), else the built-in one for an instance of
\* Linear, Conv2d or Conv1d
SelectBuildFunction(c, types, parf, p) ==
    IF /\ c.build_functions # None
       /\ TypeOf(types, parf, ParentName(p)) \in c.build_functions[1]
    THEN "custom"
    ELSE IF types[ParentName(p)] \in {"Linear", "Conv2d", "Conv1d"} THEN "base"
    ELSE "raise"

\* torch.optim.lr_scheduler.StepLR(opt, step_size=optimize_iters // 5, gamma=0.2)
StartFit(c) ==
    [state |-> "running", i |-> 0, steps |-> 0, last_epoch |-> 0, decays |-> 0,
     step_size |-> c.optimize_iters \div 5]

\* the loop body for a parameter that gets a new IntegralParameterization;
\* register_parametrization gives it the mode of its parent, and the
\* module.train() of _optimize_parameters puts the parent in training mode
ParametrizeParam ==
    /\ wpc = "loop"
    /\ gi <= Len(integral_groups)
    /\ NeedsParametrization(par, CurParam)
    /\ SelectBuildFunction(cfg, mtype, par, CurParam) # "raise"
    /\ builder' = [builder EXCEPT
                     ![CurParam] = SelectBuildFunction(cfg, mtype, par, CurParam)]
    /\ par' = [par EXCEPT ![CurParam] = Append(@, "IntegralParameterization")]
    /\ IF cfg.init_from_discrete
       THEN /\ wpc' = "fit"
            /\ training' = [training EXCEPT ![ParentName(CurParam)] = TRUE]
            /\ fit' = StartFit(cfg)
            /\ stageLog' = stageLog \o <<StageOn("parametrize", CurParam),
                                         StageOn("fit", CurParam)>>
            /\ UNCHANGED <<gi, pi>>
       ELSE /\ wpc' = "loop"
            /\ training' = training
            /\ fit' = fit
            /\ stageLog' = Append(stageLog, StageOn("parametrize", CurParam))
            /\ gi' = NextPos(topo, integral_groups, gi, pi)[1]
            /\ pi' = NextPos(topo, integral_groups, gi, pi)[2]
    /\ UNCHANGED <<build, ncalls, topo, mtype, cfg, rearranger, fusedConvs, integral_groups,
                   permCalls, err>>
    /\ UNCHANGED <<grid, held, original_size, cache, stored, rgrad, pc, done, last>>

\* raise AttributeError("Provide build function for attribute ...")
RaiseNoBuildFunction ==
    /\ wpc = "loop"
    /\ gi <= Len(integral_groups)
    /\ NeedsParametrization(par, CurParam)
    /\ SelectBuildFunction(cfg, mtype, par, CurParam) = "raise"
    /\ wpc' = "error"
    /\ err' = "AttributeError"
    /\ UNCHANGED <<build, training, ncalls, topo, mtype, cfg, rearranger, stageLog, fusedConvs, integral_groups,
                   permCalls, gi, pi, builder, fit, modelVars>>

\* else: parametrization = parent.parametrizations[name][0]
ReuseParametrization ==
    /\ wpc = "loop"
    /\ gi <= Len(integral_groups)
    /\ ~NeedsParametrization(par, CurParam)
    /\ gi' = NextPos(topo, integral_groups, gi, pi)[1]
    /\ pi' = NextPos(topo, integral_groups, gi, pi)[2]
    /\ UNCHANGED <<build, training, ncalls, topo, mtype, cfg, rearranger, wpc, stageLog, fusedConvs,
                   integral_groups, permCalls, builder, fit, err, modelVars>>

\* ------------------------------- IntegralWrapper._optimize_parameters
\* scheduler.step() of StepLR: last_epoch += 1, then get_lr() evaluates
\* last_epoch % step_size, which divides by zero when step_size is 0
SchedulerStep(f) ==
    IF f.step_size = 0
    THEN [f EXCEPT !.last_epoch = @ + 1, !.state = "raised"]
    ELSE [f EXCEPT !.last_epoch = @ + 1,
                   !.decays = IF (f.last_epoch + 1) % f.step_size = 0 THEN @ + 1 ELSE @]

\* one pass of `for i in range(self.optimize_iters)`
OptimizeStep ==
    /\ wpc = "fit"
    /\ fit.i < cfg.optimize_iters
    /\ LET stepped == SchedulerStep([fit EXCEPT !.steps = @ + 1])
       IN IF stepped.state = "raised"
          THEN /\ fit' = stepped
               /\ wpc' = "error"
               /\ err' = "ZeroDivisionError"
          ELSE /\ fit' = [stepped EXCEPT !.i = @ + 1]
               /\ UNCHANGED <<wpc, err>>
    /\ UNCHANGED <<build, training, ncalls, topo, mtype, cfg, rearranger, stageLog, fusedConvs, integral_groups,
                   permCalls, gi, pi, builder, modelVars>>

\* the loop is exhausted and _optimize_parameters returns
OptimizeReturn ==
    /\ wpc = "fit"
    /\ fit.i >= cfg.optimize_iters
    /\ fit' = [fit EXCEPT !.state = "returned"]
    /\ wpc' = "loop"
    /\ gi' = NextPos(topo, integral_groups, gi, pi)[1]
    /\ pi' = NextPos(topo, integral_groups, gi, pi)[2]
    /\ UNCHANGED <<build, training, ncalls, topo, mtype, cfg, rearranger, stageLog, fusedConvs, integral_groups,
                   permCalls, builder, err, modelVars>>

\* --------------------------------------------------- IntegralModel.__init__
\* groups.sort(key=lambda g: g.count_parameters()): the list passed to
\* IntegralModel is sorted in place, and self.groups holds it in that order
HeldGroups(t, groups) == SortGroups(t, groups)

\* integral_model = IntegralModel(model, integral_groups)
Assemble ==
    /\ wpc = "loop"
    /\ gi > Len(integral_groups)
    /\ wpc' = "assembled"
    /\ stageLog' = Append(stageLog, Stage("assemble"))
    /\ integral_groups' = HeldGroups(topo, integral_groups)
    /\ held' = HeldGroups(topo, integral_groups)
    /\ original_size' =
          Some(CompressionValue(
                 CurrentCount(topo, fusedConvs, par, integral_groups, grid, stored),
                 None)[1])
    /\ cache' = CacheAfterSampling(topo, fusedConvs, par, integral_groups,
                                   ClearAll(integral_groups, cache), training)
    /\ rgrad' = SelfNamedParameters(topo, fusedConvs, par, integral_groups, grid)
    /\ pc' = "idle"
    /\ last' = [NoCall EXCEPT !.op = "init"]
    /\ UNCHANGED <<build, training, ncalls, topo, mtype, cfg, rearranger, fusedConvs,
                   permCalls, gi, pi, builder, fit, err>>
    /\ UNCHANGED <<par, grid, stored, done>>

NextWrap ==
    \/ Trace1 \/ FuseBN \/ Trace2 \/ Rearrange \/ SkipRearrange
    \/ InitializeGrids \/ ParametrizeParam \/ RaiseNoBuildFunction
    \/ ReuseParametrization \/ OptimizeStep \/ OptimizeReturn \/ Assemble

SpecWrap == InitWrap /\ [][NextWrap]_vars

\* ---------------------------------------------- build_base_parameterization
\* the attribute names the function is called with
AttrNames == {"weight", "bias", "in_proj_bias", "running_mean"}

\* "bias" in name
AttrContainsBias(name) == name \in {"bias", "in_proj_bias"}

\* the lists of distinct dims of a tensor with n dims, in any order
DimLists(n) ==
    {ds \in SeqsUpTo(0..(n - 1), n) : \A i, j \in 1..Len(ds) : i # j => ds[i] # ds[j]}

\* the calls explored: a tensor of up to MaxRank dims, an attribute name and a
\* list of continuous dims of the tensor
BuildCalls ==
    {[NoBuild EXCEPT !.pc = "called", !.shape = sh, !.name = n, !.dims = ds] :
        sh \in SeqsUpTo(1..MaxAxis, MaxRank) \ {<<>>},
        n \in AttrNames,
        ds \in SeqsUpTo(0..(MaxRank - 1), MaxRank)}

\* cont_shape = [int(scale * weight.shape[d]) for d in dims], scale = 1.0
ContShape(shape, dims) == [i \in 1..Len(dims) |-> shape[dims[i] + 1]]

\* discrete_shape: the sizes of the dims not in dims, None when every dim is
RECURSIVE DiscreteFrom(_, _, _)
DiscreteFrom(shape, dims, d) ==
    IF d >= Len(shape) THEN <<>>
    ELSE (IF d \in Range(dims) THEN <<>> ELSE <<shape[d + 1]>>)
         \o DiscreteFrom(shape, dims, d + 1)

DiscreteShape(shape, dims) ==
    IF Len(shape) > Len(dims) THEN Some(DiscreteFrom(shape, dims, 0)) ELSE None

\* func for a weight: InterpolationWeights2D for two continuous dims,
\* InterpolationWeights1D for one, None otherwise
WeightFunc(shape, dims) ==
    IF Len(ContShape(shape, dims)) = 2
    THEN Some([kind |-> "InterpolationWeights2D",
               cont_size |-> ContShape(shape, dims),
               discrete_shape |-> DiscreteShape(shape, dims),
               cont_dim |-> None])
    ELSE IF Len(ContShape(shape, dims)) = 1
    THEN Some([kind |-> "InterpolationWeights1D",
               cont_size |-> ContShape(shape, dims),
               discrete_shape |-> DiscreteShape(shape, dims),
               cont_dim |-> Some(dims[1])])
    ELSE None

\* grid_indx = 0 if len(cont_shape) == 1 else 1
GridIndex(shape, dims) == IF Len(ContShape(shape, dims)) = 1 THEN 0 ELSE 1

\* if 1 in dims and weight.shape[1] > 3: TrapezoidalQuadrature([1], [grid_indx])
WeightQuadrature(shape, dims) ==
    IF 1 \in Range(dims) /\ shape[2] > 3
    THEN Some([integration_dims |-> <<1>>, grid_indices |-> <<GridIndex(shape, dims)>>])
    ELSE None

\* func for a bias: InterpolationWeights1D(int(scale * bias.shape[0]))
BiasFunc(shape) ==
    Some([kind |-> "InterpolationWeights1D", cont_size |-> <<shape[1]>>,
          discrete_shape |-> None, cont_dim |-> None])

\* the branch `if name == "weight"`
BuildWeight ==
    /\ build.pc = "called"
    /\ build.name = "weight"
    /\ build' = [build EXCEPT !.pc = "returned",
                              !.func = WeightFunc(build.shape, build.dims),
                              !.quadrature = WeightQuadrature(build.shape, build.dims)]
    /\ UNCHANGED <<wrapVars, modelVars, training, ncalls>>

\* the branch `elif "bias" in name`
BuildBias ==
    /\ build.pc = "called"
    /\ build.name # "weight"
    /\ AttrContainsBias(build.name)
    /\ build' = [build EXCEPT !.pc = "returned", !.func = BiasFunc(build.shape)]
    /\ UNCHANGED <<wrapVars, modelVars, training, ncalls>>

\* neither branch: return func, quadrature as initialised
BuildOther ==
    /\ build.pc = "called"
    /\ build.name # "weight"
    /\ ~AttrContainsBias(build.name)
    /\ build' = [build EXCEPT !.pc = "returned"]
    /\ UNCHANGED <<wrapVars, modelVars, training, ncalls>>

\* build_base_parameterization(module, name, dims) called on its own
InitBuild ==
    /\ topo = 3
    /\ mtype = DefaultTypes
    /\ cfg = DefaultConfig
    /\ par = [p \in AllParams |-> <<>>]
    /\ training = AllInMode(TRUE)
    /\ Unconverted
    /\ build \in {b \in BuildCalls : b.dims \in DimLists(Len(b.shape))}

NextBuild == BuildWeight \/ BuildBias \/ BuildOther

SpecBuild == InitBuild /\ [][NextBuild]_vars

\* ------------------------------------------------ claims on the conversion
\* the parameters of the groups in the order the parametrization loop first
\* meets them
RECURSIVE LoopParams(_, _, _, _, _)
LoopParams(t, groups, i, j, seen) ==
    IF i > Len(groups) THEN <<>>
    ELSE LET p == GroupParams(t, groups[i])[j].name
             n == NextPos(t, groups, i, j)
         IN IF p \in seen THEN LoopParams(t, groups, n[1], n[2], seen)
            ELSE <<p>> \o LoopParams(t, groups, n[1], n[2], seen \cup {p})

PreprocessStages(c, r) ==
    <<Stage("trace")>>
    \o (IF c.fuse_bn THEN <<Stage("fuse")>> ELSE <<>>)
    \o <<Stage("trace")>>
    \o (IF c.init_from_discrete /\ r # None THEN <<Stage("permute")>> ELSE <<>>)

\* every parameter parametrized, then every parameter fitted
StagedLog(c, r, t) ==
    LET ps == LoopParams(t, TracerGroups(t), 1, 1, {})
    IN PreprocessStages(c, r)
       \o [i \in 1..Len(ps) |-> StageOn("parametrize", ps[i])]
       \o (IF c.init_from_discrete
           THEN [i \in 1..Len(ps) |-> StageOn("fit", ps[i])] ELSE <<>>)
       \o <<Stage("assemble")>>

\* each parameter parametrized and at once fitted, one parameter after another
InterleavedLog(c, r, t) ==
    LET ps == LoopParams(t, TracerGroups(t), 1, 1, {})
    IN PreprocessStages(c, r)
       \o (IF c.init_from_discrete
           THEN [i \in 1..(2 * Len(ps)) |->
                    IF i % 2 = 1 THEN StageOn("parametrize", ps[(i + 1) \div 2])
                    ELSE StageOn("fit", ps[i \div 2])]
           ELSE [i \in 1..Len(ps) |-> StageOn("parametrize", ps[i])])
       \o <<Stage("assemble")>>

\* C5 (as claimed): when the conversion raises for a module type without a
\* build function, no parameter of the caller's model carries an integral
\* parametrization; and a registered build function is the one used for its
\* module type.
C5_AbortLeavesNoParametrization ==
    /\ err = "AttributeError" => \A p \in AllParams : ~HasIntegral(par, p)
    /\ \A p \in AllParams :
          builder[p] # "none" =>
             (builder[p] = "custom" <=>
                 /\ cfg.build_functions # None
                 /\ mtype[ParentName(p)] \in cfg.build_functions[1])

\* C8 (as claimed): the stages are entered in the order trace, fusion, trace,
\* permutation, parametrization of all parameters, fitting of all parameters,
\* assembly, so that no parameter is fitted before all are parametrized.
C8_StagesAsClaimed ==
    /\ IsPrefix(stageLog, StagedLog(cfg, rearranger, topo))
    /\ wpc = "assembled" => stageLog = StagedLog(cfg, rearranger, topo)

\* C8 (amended): the stages are entered in the order trace, fusion (only with
\* fuse_bn), trace, permutation (only with init_from_discrete and a
\* rearranger), then for each parameter in turn its parametrization followed
\* at once by its fitting (only with init_from_discrete), then assembly; a
\* conversion that raises stops inside this order.
C8_StagesInterleaved ==
    /\ IsPrefix(stageLog, InterleavedLog(cfg, rearranger, topo))
    /\ wpc = "assembled" => stageLog = InterleavedLog(cfg, rearranger, topo)
    /\ (\E p \in AllParams : HasIntegral(par, p)) =>
          /\ Len(SelectSeq(stageLog, LAMBDA e : e.stage = "trace")) = 2
          /\ (cfg.init_from_discrete /\ rearranger # None) =>
                [i \in 1..Len(permCalls) |-> permCalls[i].group] = TracerGroups(topo)

\* a conversion with every optional stage that fitted two or more parameters
C8_Witness ==
    /\ wpc = "assembled"
    /\ cfg.init_from_discrete /\ cfg.fuse_bn /\ rearranger # None
    /\ Len(SelectSeq(stageLog, LAMBDA e : e.stage = "fit")) >= 2
    /\ Len(SelectSeq(stageLog, LAMBDA e : e.stage = "permute")) = 1

\* C9 (as claimed): for every optimize_iters >= 0 the fitting step never fails
\* and returns after exactly optimize_iters gradient steps, the learning rate
\* having been multiplied by 0.2 after every optimize_iters // 5 steps.
C9_FitUsesItsBudget ==
    /\ err # "ZeroDivisionError"
    /\ fit.state # "raised"
    /\ fit.state = "returned" =>
          /\ fit.steps = cfg.optimize_iters
          /\ fit.decays = IF fit.step_size = 0 THEN 0 ELSE fit.steps \div fit.step_size

\* the sizes of the subgroups listed before position k of a parent's subgroups
SizesBefore(t, subs, k) == [j \in 1..(k - 1) |-> TracedSize(t, subs[j])]

\* C11: the rearranger is called exactly once per group, in the order the
\* tracer returned the groups, with the group's size and with the group's own records followed, for
\* every parent, by every parameter of the parent; each parent record carries
\* as start_index the sum of the sizes of the subgroups listed before the group
\* in the parent, and the slice from start_index of the group's size lies
\* inside the parent's axis.
C11_StartIndexIsOffsetInParent ==
    permCalls # <<>> =>
        /\ Len(permCalls) = Len(TracerGroups(topo))
        /\ \A i \in 1..Len(permCalls) :
              LET call == permCalls[i]
                  g == TracerGroups(topo)[i]
                  own == Len(GroupParams(topo, g))
              IN /\ call.group = g
                 /\ call.feature_maps = g
                 /\ call.size = TracedSize(topo, g)
                 /\ Len(call.params) =
                       own + SumSeq([k \in 1..Len(ParentList(topo, g)) |->
                                       Len(GroupParams(topo, ParentList(topo, g)[k]))])
                 /\ \A j \in 1..own :
                       /\ call.params[j].name = GroupParams(topo, g)[j].name
                       /\ call.params[j].dim = GroupParams(topo, g)[j].dim
                 /\ \A k \in 1..Len(ParentList(topo, g)) :
                       LET parent == ParentList(topo, g)[k]
                           subs == Subgroups(topo, parent)[1]
                           at == CHOOSE n \in 1..Len(subs) : subs[n] = g
                           offset == SumSeq(SizesBefore(topo, subs, at))
                       IN /\ \A q \in 1..Len(GroupParams(topo, parent)) :
                                \E j \in (own + 1)..Len(call.params) :
                                   call.params[j] =
                                      [name |-> GroupParams(topo, parent)[q].name,
                                       dim |-> GroupParams(topo, parent)[q].dim,
                                       start_index |-> offset]
                          /\ \A j \in (own + 1)..Len(call.params) :
                                call.params[j].start_index = offset
                          /\ offset + call.size <= TracedSize(topo, parent)

\* a conversion that permuted a group lying second in a concatenated axis: the
\* parent's parameter was passed with a positive start_index
C11_Witness ==
    /\ wpc = "assembled"
    /\ \E i \in 1..Len(permCalls) :
          /\ ParentList(topo, permCalls[i].group) # <<>>
          /\ \E j \in 1..Len(permCalls[i].params) :
                /\ permCalls[i].params[j].name = <<"c", "weight">>
                /\ permCalls[i].params[j].start_index > 0

\* ================================================= the assembled IntegralModel
\* the IntegralModel IntegralWrapper() returns for network t when it is called
\* with its default arguments on a model of Linear layers, with the
\* parametrizations the caller's model brought along still in place
Constructed ==
    /\ mtype = DefaultTypes
    /\ cfg = DefaultConfig
    /\ rearranger = MakeRearranger(cfg)
    /\ wpc = "assembled"
    /\ stageLog = InterleavedLog(cfg, rearranger, topo)
    /\ fusedConvs = Some(IntegralConvs(topo, mtype))
    /\ integral_groups = HeldGroups(topo, TracerGroups(topo))
    /\ permCalls = [i \in 1..Len(TracerGroups(topo)) |->
                       RearrangerCall(topo, TracerGroups(topo)[i])]
    /\ gi = Len(integral_groups) + 1 /\ pi = 1
    /\ builder = [p \in AllParams |->
                    IF p \in Range(LoopParams(topo, TracerGroups(topo), 1, 1, {}))
                    THEN "base" ELSE "none"]
    /\ fit = [StartFit(cfg) EXCEPT !.state = "returned"]
    /\ err = "none"
    /\ \E caller \in CallerParametrizations :
          par = [p \in AllParams |->
                   IF p \in Range(LoopParams(topo, TracerGroups(topo), 1, 1, {}))
                   THEN Append(caller[p], "IntegralParameterization")
                   ELSE caller[p]]
    /\ grid = InitializedGrids(topo, integral_groups)
    /\ stored = [p \in AllParams |-> Shape(topo, p)]
    /\ held = HeldGroups(topo, TracerGroups(topo))
    /\ original_size =
          Some(CompressionValue(
                 CurrentCount(topo, fusedConvs, par, integral_groups, grid, stored),
                 None)[1])
    /\ training = [m \in Modules |->
                     m \in {ParentName(p) :
                              p \in Range(LoopParams(topo, TracerGroups(topo), 1, 1, {}))}]
    /\ cache = CacheAfterSampling(topo, fusedConvs, par, integral_groups,
                                  [g \in Groups |-> "none"], training)
    /\ rgrad = SelfNamedParameters(topo, fusedConvs, par, integral_groups, grid)
    /\ pc = "idle"
    /\ done = {}
    /\ last = [NoCall EXCEPT !.op = "init"]
    /\ build = NoBuild
    /\ ncalls = 0

Init == topo \in ModelTopologies /\ Constructed

\* the grid of continuous dim d: its position in the continuous-dims list
GridOfDim(dims, d) == (CHOOSE i \in 1..Len(dims) : dims[i] = d) - 1

\* C12: build_base_parameterization returns a trapezoidal quadrature exactly
\* when the attribute is "weight", tensor dimension 1 is among the continuous
\* dims and that dimension is longer than 3; the quadrature then integrates
\* tensor dimension 1 with the grid that corresponds to dimension 1 in the
\* continuous-dims list; and the interpolation function of a weight is 1-D
\* for one continuous dim and 2-D for two.
C12_QuadratureOnContractedAxis ==
    build.pc = "returned" =>
        /\ build.quadrature # None
            <=> /\ build.name = "weight"
                /\ 1 \in Range(build.dims)
                /\ build.shape[2] > 3
        /\ build.quadrature # None =>
            /\ build.quadrature[1].integration_dims = <<1>>
            /\ build.quadrature[1].grid_indices = <<GridOfDim(build.dims, 1)>>
        /\ (build.name = "weight" /\ Len(build.dims) = 1) =>
            build.func[1].kind = "InterpolationWeights1D"
        /\ (build.name = "weight" /\ Len(build.dims) = 2) =>
            build.func[1].kind = "InterpolationWeights2D"

\* ------------------------------------------------------ IntegralModel.forward
\* a variant of generate_grid that skips the groups with subgroups
GenerateGridTargets_LeavesOnly(t, groups) == SelectSeq(groups, LAMBDA g : IsLeaf(t, g))

\* generate_grid: `for group in self.groups`
GenerateGridTargets(t, groups) == groups

\* group.grid.generate_grid(): the sample positions are drawn again; kind, size
\* and distribution of the grid stay
GenerateGrid(gr) == gr

\* the cached or freshly sampled tensors the wrapped model reads when it runs
UsedVersions(t, fused, parf, groups, cachef, tr) ==
    {IF InTraining(t, fused, parf, g, tr) \/ cachef[g] = "none" THEN "fresh"
     ELSE cachef[g] :
        g \in SamplingGroups(t, fused, parf, groups)}

\* self.generate_grid(): the loop over the groups
ForwardGenerate ==
    /\ pc = "idle"
    /\ ncalls < MaxCalls
    /\ ncalls' = ncalls + 1
    /\ grid' = [g \in Groups |->
                  IF g \in Range(GenerateGridTargets(topo, held))
                  THEN GenerateGrid(grid[g]) ELSE grid[g]]
    /\ done' = Range(GenerateGridTargets(topo, held))
    /\ pc' = "forward"
    /\ UNCHANGED <<build, training, wrapVars, par, held, original_size, cache, stored, rgrad, last>>

\* return self.model(x)
ForwardCall ==
    /\ pc = "forward"
    /\ cache' = CacheAfterSampling(topo, fusedConvs, par, held, cache, training)
    /\ last' = [op |-> "forward", args |-> <<>>,
                ret |-> [NoRet EXCEPT
                           !.used = UsedVersions(topo, fusedConvs, par, held, cache,
                                                 training),
                           !.gens = done],
                rep |-> FALSE]
    /\ pc' = "idle"
    /\ UNCHANGED ncalls
    /\ UNCHANGED <<build, training, wrapVars, par, grid, held, original_size, stored, rgrad, done>>

\* ---------------------------------------------- IntegralModel.load_state_dict
\* a variant of clear that clears no group
ClearTargets_None(groups) == <<>>

\* clear: `for group in self.groups`
ClearTargets(groups) == groups

\* IntegralModel.clear() called on its own
Clear ==
    /\ pc = "idle"
    /\ ncalls < MaxCalls
    /\ ncalls' = ncalls + 1
    /\ cache' = ClearAll(ClearTargets(held), cache)
    /\ done' = Range(ClearTargets(held))
    /\ last' = [NoCall EXCEPT !.op = "clear"]
    /\ UNCHANGED <<build, training, wrapVars, par, grid, held, original_size, stored,
                   rgrad, pc>>

\* the state dicts a caller loads: the model's own state_dict(), the same
\* with a key the model does not have, or {}
StateDicts == {"own", "extra", "empty"}

\* Module.load_state_dict raises for missing or unexpected keys when strict
LoadRaises(sd, strict) == sd \in {"extra", "empty"} /\ strict

\* Module.load_state_dict copies every tensor whose key the model has, before
\* it raises if it does: the tensors sampled earlier and still cached are stale
CacheAfterLoading(sd, cachef) ==
    IF sd \in {"own", "extra"}
    THEN [g \in Groups |-> IF cachef[g] = "none" THEN "none" ELSE "stale"]
    ELSE cachef

\* out = super().load_state_dict(state_dict, strict) returns: the coefficients
\* found in the state dict are replaced, so every tensor sampled from them
\* earlier and still cached is stale
LoadBegin ==
    /\ pc = "idle"
    /\ ncalls < MaxCalls
    /\ ncalls' = ncalls + 1
    /\ \E sd \in StateDicts, strict \in BOOLEAN :
          /\ ~LoadRaises(sd, strict)
          /\ cache' = CacheAfterLoading(sd, cache)
    /\ done' = {}
    /\ pc' = "load"
    /\ UNCHANGED <<build, training, wrapVars, par, grid, held, original_size, stored,
                   rgrad, last>>

\* super().load_state_dict(state_dict, strict) raises: self.clear() is not
\* reached and the error leaves load_state_dict
LoadRaise ==
    /\ pc = "idle"
    /\ ncalls < MaxCalls
    /\ ncalls' = ncalls + 1
    /\ \E sd \in StateDicts, strict \in BOOLEAN :
          /\ LoadRaises(sd, strict)
          /\ cache' = CacheAfterLoading(sd, cache)
    /\ last' = [NoCall EXCEPT !.op = "load_raised"]
    /\ UNCHANGED <<build, training, wrapVars, par, grid, held, original_size,
                   stored, rgrad, pc, done>>

\* self.clear(); return out
LoadClear ==
    /\ pc = "load"
    /\ cache' = ClearAll(ClearTargets(held), cache)
    /\ done' = Range(ClearTargets(held))
    /\ last' = [NoCall EXCEPT !.op = "load"]
    /\ pc' = "idle"
    /\ UNCHANGED ncalls
    /\ UNCHANGED <<build, training, wrapVars, par, grid, held, original_size, stored, rgrad>>

\* ------------------------------------------------ Module.eval / Module.train
\* model.eval(): every module of the integral model leaves training mode
Eval ==
    /\ pc = "idle"
    /\ ncalls < MaxCalls
    /\ ncalls' = ncalls + 1
    /\ training' = AllInMode(FALSE)
    /\ last' = [NoCall EXCEPT !.op = "eval"]
    /\ UNCHANGED <<build, wrapVars, par, grid, held, original_size, cache, stored,
                   rgrad, pc, done>>

\* model.train(): every module of the integral model enters training mode
Train ==
    /\ pc = "idle"
    /\ ncalls < MaxCalls
    /\ ncalls' = ncalls + 1
    /\ training' = AllInMode(TRUE)
    /\ last' = [NoCall EXCEPT !.op = "train"]
    /\ UNCHANGED <<build, wrapVars, par, grid, held, original_size, cache, stored,
                   rgrad, pc, done>>

\* --------------------------------------- IntegralModel.calculate_compression
\* the whole method; `overwrite` tells whether it stores its count in
\* original_size, which only the constructor does
CalcStep(overwrite) ==
    /\ pc = "idle"
    /\ ncalls < MaxCalls
    /\ ncalls' = ncalls + 1
    /\ LET regenerated == [g \in Groups |->
                              IF g \in Range(held) THEN GenerateGrid(grid[g])
                              ELSE grid[g]]
           out == CurrentCount(topo, fusedConvs, par, held, regenerated, stored)
       IN /\ grid' = regenerated
          /\ cache' = CacheAfterSampling(topo, fusedConvs, par, held,
                                         ClearAll(held, cache), training)
          /\ original_size' = IF overwrite THEN Some(out) ELSE original_size
          /\ last' = [op |-> "calc", args |-> <<>>,
                      ret |-> [NoRet EXCEPT !.value = CompressionValue(out, original_size)],
                      rep |-> last.op = "calc"]
    /\ UNCHANGED <<build, training, wrapVars, par, held, stored, rgrad, pc, done>>

\* a variant that stores every count it computes in original_size
CalculateCompression_Overwriting == CalcStep(TRUE)

\* calculate_compression() called on the constructed model
CalculateCompression == CalcStep(FALSE)

\* ------------------------- IntegralModel.resize / reset_grids / reset_distributions
\* a variant that pairs the entries with the groups in reverse order
ZipGroups_Reversed(groups, entries) ==
    [i \in 1..Min(Len(groups), Len(entries)) |->
        <<groups[Len(groups) + 1 - i], entries[i]>>]

\* zip(self.groups, entries): pairs up to the shorter of the two
ZipGroups(groups, entries) ==
    [i \in 1..Min(Len(groups), Len(entries)) |-> <<groups[i], entries[i]>>]

\* the groups a zip reaches
Zipped(groups, entries) ==
    {ZipGroups(groups, entries)[i][1] : i \in 1..Len(ZipGroups(groups, entries))}

\* the entry the zip pairs with group g
EntryOf(groups, entries, g) ==
    LET z == ZipGroups(groups, entries)
    IN z[CHOOSE i \in 1..Len(z) : z[i][1] = g][2]

\* group.resize(size): the grid takes the new size.  A composite grid records
\* the size asked of it; its length stays that of its parts
GroupResize(gr, n) == [gr EXCEPT !.size = n]

\* group.reset_grid(grid): the group's grid is replaced by the one passed
GroupResetGrid(gr, new) == new

\* group.reset_distribution(dist)
GroupResetDistribution(gr, d) == [gr EXCEPT !.dist = d]

\* resizing or replacing a group's grid drops what the group and its parents cached
CacheAfterGridChange(t, touched, cachef) ==
    [g \in Groups |->
        IF g \in touched \cup UNION {Parents(t, h) : h \in touched}
        THEN "none" ELSE cachef[g]]

\* the grids a caller passes to reset_grids
GridChoices == [kind : {"linspace", "trainable"}, size : 1..MaxSize, dist : {0}]

\* requires_grad after grids were replaced: a new trainable grid brings a new
\* trainable parameter, a replaced grid takes its parameter away
RgradAfterGrids(rg, replaced, gridf) ==
    (rg \ {GridP(g) : g \in replaced}) \cup
    {GridP(g) : g \in {h \in replaced : gridf[h].kind = "trainable"}}

\* resize(sizes)
ResizeWith(sizes) ==
    /\ pc = "idle"
    /\ ncalls < MaxCalls
    /\ ncalls' = ncalls + 1
    /\ grid' = [g \in Groups |->
                  IF g \in Zipped(held, sizes)
                  THEN GroupResize(grid[g], EntryOf(held, sizes, g)) ELSE grid[g]]
    /\ cache' = CacheAfterGridChange(topo, Zipped(held, sizes), cache)
    /\ last' = [NoCall EXCEPT !.op = "resize", !.args = sizes]
    /\ UNCHANGED <<build, training, wrapVars, par, held, original_size, stored, rgrad, pc, done>>

Resize == \E sizes \in SeqsUpTo(1..MaxSize, MaxArgs) : ResizeWith(sizes)

\* reset_grids(grids)
ResetGridsWith(grids) ==
    /\ pc = "idle"
    /\ ncalls < MaxCalls
    /\ ncalls' = ncalls + 1
    /\ grid' = [g \in Groups |->
                  IF g \in Zipped(held, grids)
                  THEN GroupResetGrid(grid[g], EntryOf(held, grids, g)) ELSE grid[g]]
    /\ cache' = CacheAfterGridChange(topo, Zipped(held, grids), cache)
    /\ rgrad' = RgradAfterGrids(rgrad, Zipped(held, grids), grid')
    /\ last' = [NoCall EXCEPT !.op = "reset_grids", !.args = grids]
    /\ UNCHANGED <<build, training, wrapVars, par, held, original_size, stored, pc, done>>

ResetGrids == \E grids \in SeqsUpTo(GridChoices, MaxArgs) : ResetGridsWith(grids)

\* reset_distributions(distributions)
ResetDistributionsWith(dists) ==
    /\ pc = "idle"
    /\ ncalls < MaxCalls
    /\ ncalls' = ncalls + 1
    /\ grid' = [g \in Groups |->
                  IF g \in Zipped(held, dists)
                  THEN GroupResetDistribution(grid[g], EntryOf(held, dists, g))
                  ELSE grid[g]]
    /\ last' = [NoCall EXCEPT !.op = "reset_distributions", !.args = dists]
    /\ UNCHANGED <<build, training, wrapVars, par, held, original_size, cache, stored, rgrad,
                   pc, done>>

ResetDistributions ==
    \E dists \in SeqsUpTo(1..MaxDist, MaxArgs) : ResetDistributionsWith(dists)

\* --------------------------------------- IntegralModel.transform_to_discrete
\* the (module, attr) pairs with attr in ("weight", "bias") that are parametrized
ParametrizedAttrs(t, fused, parf) ==
    {p \in Range(ModelParams(t, fused)) :
        AttrName(p) \in {"weight", "bias"} /\ IsParametrized(parf, p)}

\* the attributes the second loop registers the saved parametrization on again
Reregistered(removed) == removed

\* remove_parametrizations(module, attr, True): the attribute becomes a plain
\* tensor holding what the parametrization evaluated to; a parametrization
\* registered on it afterwards keeps that tensor as its ".original"
PlainAfterRemoval(t, groups, gridf, storedf, parf, removed) ==
    [p \in AllParams |->
        IF p \in removed THEN EvaluatedShape(t, groups, gridf, storedf, parf, p)
        ELSE storedf[p]]

\* transform_to_discrete(); a parametrization that is not registered again
\* takes its parameters out of self.named_parameters()
TransformToDiscrete ==
    /\ pc = "idle"
    /\ ncalls < MaxCalls
    /\ ncalls' = ncalls + 1
    /\ LET regenerated == [g \in Groups |->
                              IF g \in Range(held) THEN GenerateGrid(grid[g])
                              ELSE grid[g]]
           removed == ParametrizedAttrs(topo, fusedConvs, par)
           plain == PlainAfterRemoval(topo, held, regenerated, stored, par, removed)
           back == Reregistered(removed)
       IN /\ grid' = regenerated
          /\ par' = [p \in AllParams |->
                        IF p \in removed \ back THEN <<>>
                        ELSE IF p \in back THEN <<par[p][1]>>
                        ELSE par[p]]
          /\ stored' = plain
          /\ rgrad' = rgrad \cap SelfNamedParameters(topo, fusedConvs, par', held,
                                                     regenerated)
          /\ last' = [op |-> "transform", args |-> <<>>,
                      ret |-> [NoRet EXCEPT
                                 !.model = [par |-> [p \in AllParams |->
                                                       IF p \in removed THEN <<>>
                                                       ELSE par[p]],
                                            shape |-> plain]],
                      rep |-> FALSE]
    /\ cache' = CacheAfterSampling(topo, fusedConvs, par, held, cache, training)
    /\ UNCHANGED <<build, training, wrapVars, held, original_size, pc, done>>

\* ------------------------------------------------- IntegralModel.grid_tuning
\* if use_all_grids: every group without subgroups gets TrainableGrid1D(grid_size())
TrainableGrids(t, groups, gridf, all) ==
    [g \in Groups |->
        IF all /\ g \in Range(groups) /\ IsLeaf(t, g)
        THEN [kind |-> "trainable", size |-> GridSize(t, gridf, g), dist |-> 0]
        ELSE gridf[g]]

\* the loop over self.named_parameters(): requires_grad is True exactly for the
\* parameters whose parent is a TrainableGrid1D
FrozenExceptGrids(names) == {n \in names : n.kind = "grid"}

\* utils.reset_batchnorm: the parameters of the batch norm modules, made trainable
BatchNormParams(t, fused, types) ==
    {PlainP(p) : p \in {q \in Range(ModelParams(t, fused)) :
                          types[ParentName(q)] = "BatchNorm2d"}}

\* w in s: the string w occurs somewhere in the string s
Contains(s, w) ==
    \E i \in 1..(Len(s) + 1 - Len(w)) : SubSeq(s, i, i + Len(w) - 1) = w

\* p["name"]: the dotted name of a parameter
DottedName(p) == ParentName(p) \o "." \o AttrName(p)

\* "bias" in p["name"]
NameContainsBias(p) == Contains(DottedName(p), "bias")

\* the train_bias loop: for every group parameter whose name contains "bias",
\* the attribute "bias" of its parent module
GroupBiases(t, groups) ==
    {<<ParentName(p), "bias">> :
        p \in {q \in UNION {GroupParamNames(t, g) : g \in Range(groups)} :
                  NameContainsBias(q)}}

\* grid_tuning(train_bn, train_bias, use_all_grids)
GridTuningWith(train_bn, train_bias, use_all_grids) ==
    /\ pc = "idle"
    /\ ncalls < MaxCalls
    /\ ncalls' = ncalls + 1
    /\ LET tuned == TrainableGrids(topo, held, grid, use_all_grids)
           replaced == {g \in Range(held) : use_all_grids /\ IsLeaf(topo, g)}
           names == SelfNamedParameters(topo, fusedConvs, par, held, tuned)
           biases == IF train_bias THEN GroupBiases(topo, held) ELSE {}
           removed == {p \in biases \cap AllParams : IsParametrized(par, p)}
       IN /\ grid' = tuned
          /\ cache' = CacheAfterGridChange(topo, replaced, cache)
          /\ par' = [p \in AllParams |-> IF p \in removed THEN <<>> ELSE par[p]]
          /\ stored' = PlainAfterRemoval(topo, held, tuned, stored, par, removed)
          /\ rgrad' = FrozenExceptGrids(names)
                        \cup (IF train_bn THEN BatchNormParams(topo, fusedConvs, mtype)
                              ELSE {})
                        \cup {PlainP(p) : p \in biases}
    /\ last' = [NoCall EXCEPT !.op = "grid_tuning",
                               !.args = <<train_bn, train_bias, use_all_grids>>]
    /\ UNCHANGED <<build, training, wrapVars, held, original_size, pc, done>>

GridTuning ==
    \E train_bn \in BOOLEAN, train_bias \in BOOLEAN, use_all_grids \in BOOLEAN :
        GridTuningWith(train_bn, train_bias, use_all_grids)

\* the operations a caller runs on the assembled model, in any order
Next ==
    \/ ForwardGenerate \/ ForwardCall
    \/ LoadBegin \/ LoadRaise \/ LoadClear \/ Clear
    \/ Eval \/ Train
    \/ CalculateCompression
    \/ Resize \/ ResetGrids \/ ResetDistributions
    \/ TransformToDiscrete
    \/ GridTuning

Spec == Init /\ [][Next]_vars

\* ------------------------------------------- claims on the assembled model
\* the default conversion of SpecWrap ends in the state Spec starts from
AssembledAsConstructed ==
    (wpc = "assembled" /\ cfg = DefaultConfig /\ mtype = DefaultTypes) => Constructed

\* a step in which the call `op` ran on the idle model and returned
Returned(op) == pc = "idle" /\ pc' = "idle" /\ last'.op = op

\* C1: every forward regenerates the grid of every group the model holds
\* before it runs the wrapped model: the wrapped model is only entered from a
\* generate_grid of the same call, and that generate_grid has handled every
\* held group.
C1_ForwardRegeneratesAllGrids ==
    [][/\ (pc' = "forward" /\ pc # "forward") => (pc = "idle" /\ done' = Range(held))
       /\ (pc = "forward" /\ pc' = "idle") =>
             (last'.op = "forward" /\ done = Range(held) /\ last'.ret.gens = Range(held))]_vars

\* a forward that returned on a model holding a non-leaf group, after a grid
\* was resized and a grid was made trainable
C1_Witness ==
    /\ last.op = "forward"
    /\ last.ret.gens = Range(held)
    /\ \E g \in Range(held) : ~IsLeaf(topo, g)
    /\ \E g \in Range(held) : grid[g].size # TracedSize(topo, g)
    /\ \E g \in Range(held) : grid[g].kind = "trainable"

\* the parameter count with every parametrized parameter taken at the size of
\* the tensor its parametrization evaluates to on the current grids
MaterializedCount ==
    LET ps == ModelParams(topo, fusedConvs)
    IN SumSeq([i \in 1..Len(ps) |->
                 IF HasIntegral(par, ps[i])
                 THEN Prod(SampledShape(topo, held, grid, ps[i]))
                 ELSE Prod(stored[ps[i]])])

\* the parameter count with every parametrized parameter taken at the size of
\* its coefficient tensor
CoefficientCount ==
    LET ps == ModelParams(topo, fusedConvs)
    IN SumSeq([i \in 1..Len(ps) |->
                 IF HasIntegral(par, ps[i])
                 THEN Prod(Shape(topo, ps[i]))
                 ELSE Prod(stored[ps[i]])])

\* C2 (as claimed): calculate_compression returns 1 - count / original_size
\* where the count takes every plain parameter as stored and every parametrized
\* parameter at the size of its coefficient storage; the result is at most 1.
C2_CountsCoefficientStorage ==
    last.op = "calc" =>
        /\ original_size # None
        /\ last.ret.value = <<original_size[1] - CoefficientCount, original_size[1]>>
        /\ last.ret.value[1] <= last.ret.value[2]

\* C2 (amended): calculate_compression returns 1 - count / original_size where
\* the count takes every plain parameter as stored and every parametrized
\* parameter at the size of the tensor sampled on the current grids; the result
\* is at most 1.
C2_CountsSampledTensors ==
    last.op = "calc" =>
        /\ original_size # None
        /\ last.ret.value = <<original_size[1] - MaterializedCount, original_size[1]>>
        /\ last.ret.value[1] <= last.ret.value[2]

\* a compression computed while the sampled tensors are smaller than the
\* coefficients they are sampled from
C2_Witness ==
    /\ last.op = "calc"
    /\ MaterializedCount < CoefficientCount
    /\ last.ret.value[1] > 0

\* C3: transform_to_discrete leaves every parametrized weight or bias of the
\* integral model parametrized by the same parametrization, and returns a copy
\* in which none of them is parametrized and each holds the tensor sampled on
\* the current grids.
C3_TransformIsNonDestructive ==
    [][Returned("transform") =>
         /\ \A p \in AllParams : par'[p] = par[p]
         /\ \A p \in ParametrizedAttrs(topo, fusedConvs, par) :
               /\ last'.ret.model.par[p] = <<>>
               /\ last'.ret.model.shape[p] = SampledShape(topo, held, grid, p)]_vars

\* the leaf groups of the tracer in ascending order of parameter count
SortedLeaves(t) == SortGroups(t, SelectSeq(TracerGroups(t), LAMBDA g : IsLeaf(t, g)))

\* C4 (as claimed): the model holds exactly the leaf groups, sorted by
\* parameter count, and a call that passes one entry per leaf group applies
\* entry i to the i-th leaf group and touches no group with subgroups.
C4_OneEntryPerLeafGroup ==
    [][/\ held = SortedLeaves(topo)
       /\ \A op \in {"resize", "reset_grids", "reset_distributions"} :
             (Returned(op) /\ Len(last'.args) = Len(SortedLeaves(topo))) =>
                /\ \A i \in 1..Len(last'.args) :
                      LET g == SortedLeaves(topo)[i]
                      IN CASE op = "resize" -> grid'[g].size = last'.args[i]
                           [] op = "reset_grids" -> grid'[g] = last'.args[i]
                           [] OTHER -> grid'[g].dist = last'.args[i]
                /\ \A g \in Groups : ~IsLeaf(topo, g) => grid'[g] = grid[g]]_vars

\* C4 (amended): the model holds every group the tracer returned, leaf or not,
\* sorted by parameter count ascending; a call applies entry i to the i-th held
\* group for every i up to the shorter of the two lists, leaves the groups
\* beyond the entries as they were, and ignores the entries beyond the groups.
C4_EntriesZippedOverHeldGroups ==
    [][/\ Len(held) = Len(TracerGroups(topo))
       /\ Range(held) = Range(TracerGroups(topo))
       /\ \A i, j \in 1..Len(held) :
             i < j => count_parameters(topo, held[i]) <= count_parameters(topo, held[j])
       /\ \A op \in {"resize", "reset_grids", "reset_distributions"} :
             Returned(op) =>
                /\ \A i \in 1..Len(held) :
                      grid'[held[i]] =
                         IF i > Len(last'.args) THEN grid[held[i]]
                         ELSE CASE op = "resize" ->
                                     [grid[held[i]] EXCEPT !.size = last'.args[i]]
                                [] op = "reset_grids" -> last'.args[i]
                                [] OTHER -> [grid[held[i]] EXCEPT !.dist = last'.args[i]]
                /\ \A g \in Groups \ Range(held) : grid'[g] = grid[g]]_vars

\* a resize that gave the first held group, a group with subgroups, a new size
\* and left the second held group, a leaf, at the size it was traced with
C4_Witness ==
    /\ last.op = "resize"
    /\ Len(last.args) = 1
    /\ Len(held) = 2
    /\ ~IsLeaf(topo, held[1])
    /\ grid[held[1]].size # TracedSize(topo, held[1])
    /\ IsLeaf(topo, held[2])
    /\ grid[held[2]] = InitialGrid(topo, held[2])

C7_OnlyGridsBatchNormAndBiasesTrain ==
    [][Returned("grid_tuning") =>
         LET train_bn == last'.args[1]
             train_bias == last'.args[2]
             use_all_grids == last'.args[3]
             biases == {p \in Range(DiscreteParams(topo)) :
                          /\ AttrName(p) = "bias"
                          /\ \E g \in Range(held) : p \in GroupParamNames(topo, g)}
             bns == {p \in Range(DiscreteParams(topo)) :
                       mtype[ParentName(p)] = "BatchNorm2d"}
         IN /\ rgrad' = {GridP(g) : g \in {h \in Groups : grid'[h].kind = "trainable"}}
                          \cup (IF train_bn THEN {PlainP(p) : p \in bns} ELSE {})
                          \cup (IF train_bias THEN {PlainP(p) : p \in biases} ELSE {})
            /\ train_bias => \A p \in biases : ~IsParametrized(par', p)
            /\ use_all_grids =>
                  \A g \in Range(held) :
                     IsLeaf(topo, g) =>
                        /\ grid'[g].kind = "trainable"
                        /\ grid'[g].size = grid[g].size]_vars

\* the parameter count of the discrete model
DiscreteCount(t) ==
    SumSeq([i \in 1..Len(DiscreteParams(t)) |-> Prod(Shape(t, DiscreteParams(t)[i]))])

\* C10: calculate_compression called twice in a row returns the same value
\* both times; a call changes neither the grids nor original_size, which
\* stays at the count taken at construction.
C10_CompressionRepeatable ==
    [][/\ (Returned("calc") /\ last.op = "calc") => last'.ret.value = last.ret.value
       /\ Returned("calc") => (grid' = grid /\ original_size' = original_size)
       /\ original_size' = Some(DiscreteCount(topo))]_vars

\* a second calculate_compression in a row on a model with resized grids
C10_Witness ==
    /\ last.op = "calc"
    /\ last.rep
    /\ last.ret.value[1] > 0

====
